---- MODULE Spec2Model ----
(***************************************************************************)
(* Model of src/core/config.py: the default Lennard-Jones parameter        *)
(* generator (generate_default_lj_params) and the configuration loader     *)
(* (Config.from_dict).                                                     *)
(*                                                                         *)
(* Numbers are IEEE-754 binary64 values, as Python floats and numpy        *)
(* float64 are: a finite value is a sign, a 53-bit significand (held in    *)
(* two words, hi * 2^27 + lo) and a binary exponent, and every arithmetic  *)
(* operation rounds its exact result to nearest, ties to even.             *)
(***************************************************************************)
EXTENDS Integers, Sequences, FiniteSets, TLC

(***************************************************************************)
(* Bounds of the model.                                                    *)
(***************************************************************************)
\* longest elements list a call is given
MaxLen == 3

(***************************************************************************)
(* Unsigned big integers as bit sequences, least significant bit first,    *)
(* without leading (high) zero bits; <<>> is zero.  Sums, products and     *)
(* quotients are computed on limbs of LimbBits bits, so that every         *)
(* intermediate value stays below 2^31.                                    *)
(***************************************************************************)
\* bits of a limb of the big-integer arithmetic
LimbBits == 13

RECURSIVE Pow2Rec(_)
Pow2Rec(k) == IF k = 0 THEN 1 ELSE 2 * Pow2Rec(k - 1)

Pow2Table == [k \in 0..LimbBits |-> Pow2Rec(k)]

Pow2(k) == Pow2Table[k]

Base == Pow2(LimbBits)

RECURSIVE NatToBits(_)
NatToBits(n) == IF n = 0 THEN <<>> ELSE <<n % 2>> \o NatToBits(n \div 2)

RECURSIVE BitsToNat(_)
BitsToNat(b) == IF b = <<>> THEN 0 ELSE Head(b) + 2 * BitsToNat(Tail(b))

\* b without its leading zero bits
Trim(b) ==
    IF \A i \in 1..Len(b) : b[i] = 0 THEN <<>>
    ELSE SubSeq(b, 1, CHOOSE i \in 1..Len(b) :
                         b[i] = 1 /\ \A j \in (i + 1)..Len(b) : b[j] = 0)

Zeros(k) == [i \in 1..k |-> 0]

ShiftLeft(b, k) == IF b = <<>> THEN <<>> ELSE Zeros(k) \o b

ShiftRight(b, k) == IF k >= Len(b) THEN <<>> ELSE SubSeq(b, k + 1, Len(b))

BitAt(b, i) == IF i >= 1 /\ i <= Len(b) THEN b[i] ELSE 0

AnyBelow(b, k) == \E i \in 1..k : BitAt(b, i) = 1

\* the limbs of b, least significant first
Limbs(b) ==
    [i \in 1..((Len(b) + LimbBits - 1) \div LimbBits) |->
        BitsToNat(SubSeq(b, LimbBits * (i - 1) + 1,
                         IF LimbBits * i < Len(b) THEN LimbBits * i ELSE Len(b)))]

\* the bits of a sequence of limbs
Bits(l) ==
    Trim([j \in 1..(LimbBits * Len(l)) |->
            (l[(j - 1) \div LimbBits + 1] \div Pow2((j - 1) % LimbBits)) % 2])

LimbAt(l, i) == IF i >= 1 /\ i <= Len(l) THEN l[i] ELSE 0

\* a + b, limb by limb with a running carry
RECURSIVE LAddFrom(_, _, _, _, _)
LAddFrom(a, b, i, carry, acc) ==
    IF i > Len(a) /\ i > Len(b)
    THEN Append(acc, carry)
    ELSE LET t == LimbAt(a, i) + LimbAt(b, i) + carry
         IN  LAddFrom(a, b, i + 1, t \div Base, Append(acc, t % Base))

BAdd(a, b) == Bits(LAddFrom(Limbs(a), Limbs(b), 1, 0, <<>>))

\* the sum of the products a[i] * b[k + 1 - i] of column k
RECURSIVE ColumnSum(_, _, _, _)
ColumnSum(a, b, k, i) ==
    IF i > Len(a) THEN 0
    ELSE a[i] * LimbAt(b, k + 1 - i) + ColumnSum(a, b, k, i + 1)

\* a * b, column by column with a running carry
RECURSIVE LMulFrom(_, _, _, _, _)
LMulFrom(a, b, k, carry, acc) ==
    IF k > Len(a) + Len(b)
    THEN acc
    ELSE LET t == carry + ColumnSum(a, b, k, 1)
         IN  LMulFrom(a, b, k + 1, t \div Base, Append(acc, t % Base))

BMul(a, b) == Bits(LMulFrom(Limbs(a), Limbs(b), 1, 0, <<>>))

\* long division of the limbs a by a small n > 0 (n * Base < 2^31), most
\* significant limb first: the quotient's limbs, and the remainder
RECURSIVE LQuotFrom(_, _, _, _, _)
LQuotFrom(a, n, i, rem, acc) ==
    IF i = 0
    THEN acc
    ELSE LQuotFrom(a, n, i - 1, (rem * Base + a[i]) % n,
                   <<(rem * Base + a[i]) \div n>> \o acc)

RECURSIVE LRemFrom(_, _, _, _)
LRemFrom(a, n, i, rem) ==
    IF i = 0 THEN rem ELSE LRemFrom(a, n, i - 1, (rem * Base + a[i]) % n)

BQuot(a, n) == Bits(LQuotFrom(Limbs(a), n, Len(Limbs(a)), 0, <<>>))

BRem(a, n) == LRemFrom(Limbs(a), n, Len(Limbs(a)), 0)

(***************************************************************************)
(* IEEE-754 binary64.  A value is a record                                 *)
(*   [cls |-> "num", neg, exp, hi, lo]  the number (-1)^neg * m * 2^exp     *)
(*                                      with m = hi * 2^27 + lo < 2^53,     *)
(*   [cls |-> "inf", neg, ...]          an infinity,                        *)
(*   [cls |-> "nan", ...]               a NaN.                              *)
(* A normal number has 2^52 <= m; a subnormal one has exp = MinExp; zero   *)
(* has m = 0 and exp = MinExp.                                             *)
(***************************************************************************)
\* bits of the significand
MantBits == 53
\* bits of the low word of the significand
LoBits == 27
\* exponent of the least significant bit of the smallest subnormal
MinExp == -1074
\* exponent of the most significant bit of the largest finite number
MaxExp == 1023

FInf(neg) == [cls |-> "inf", neg |-> neg, exp |-> 0, hi |-> 0, lo |-> 0]
FNaN == [cls |-> "nan", neg |-> FALSE, exp |-> 0, hi |-> 0, lo |-> 0]

\* the canonical record of (-1)^neg * bits * 2^exp, bits of at most 53 bits
Pack(neg, bits, exp) ==
    [cls |-> "num", neg |-> neg, exp |-> exp,
     hi |-> BitsToNat(ShiftRight(bits, LoBits)),
     lo |-> BitsToNat(SubSeq(bits, 1, IF Len(bits) < LoBits THEN Len(bits) ELSE LoBits))]

FZero(neg) == Pack(neg, <<>>, MinExp)

\* the significand of a number, as bits
Mant(x) ==
    IF x.hi = 0
    THEN NatToBits(x.lo)
    ELSE LET l == NatToBits(x.lo)
         IN  l \o Zeros(LoBits - Len(l)) \o NatToBits(x.hi)

IsZero(x) == x.cls = "num" /\ x.hi = 0 /\ x.lo = 0

\* math.isfinite
IsFinite(x) == x.cls = "num"

Max(a, b) == IF a >= b THEN a ELSE b
Min(a, b) == IF a <= b THEN a ELSE b

\* Round the exact value (-1)^neg * (bits + s) * 2^exp, where 0 < s < 1 when
\* sticky and s = 0 otherwise, to the nearest binary64, ties to even.
RoundPack(neg, bits, exp, sticky) ==
    LET len   == Len(bits)
        shift == Max(len - MantBits, MinExp - exp)
    IN  IF len = 0
        THEN FZero(neg)
        ELSE IF shift <= 0
        THEN \* exact: normalise down to the smallest exponent allowed
             LET up == Min(MantBits - len, exp - MinExp)
             IN  Pack(neg, ShiftLeft(bits, up), exp - up)
        ELSE LET kept  == ShiftRight(bits, shift)
                 guard == BitAt(bits, shift)
                 rest  == sticky \/ AnyBelow(bits, shift - 1)
                 odd   == BitAt(kept, 1) = 1
                 m     == IF guard = 1 /\ (rest \/ odd)
                          THEN BAdd(kept, <<1>>) ELSE kept
                 m2    == IF Len(m) > MantBits THEN ShiftRight(m, 1) ELSE m
                 e2    == IF Len(m) > MantBits THEN exp + shift + 1 ELSE exp + shift
             IN  IF e2 + Len(m2) - 1 > MaxExp THEN FInf(neg) ELSE Pack(neg, m2, e2)

\* float(n) for an int n >= 0
FromInt(n) == RoundPack(FALSE, NatToBits(n), 0, FALSE)

\* guard bits kept below the larger operand of a sum
AddGuard == 5

\* x + y for x, y >= 0 (every sum of the program is a sum of tabulated radii).
\* The operands are aligned at the smaller exponent, but no lower than
\* AddGuard bits below the larger one: what falls below only makes the
\* sum inexact (sticky).
FAdd(x, y) ==
    IF x.cls = "nan" \/ y.cls = "nan" THEN FNaN
    ELSE IF x.cls = "inf" \/ y.cls = "inf" THEN FInf(FALSE)
    ELSE IF IsZero(x) THEN y
    ELSE IF IsZero(y) THEN x
    ELSE LET e  == Max(Min(x.exp, y.exp), Max(x.exp, y.exp) - MantBits - AddGuard)
             ax == IF x.exp >= e THEN ShiftLeft(Mant(x), x.exp - e)
                                 ELSE ShiftRight(Mant(x), e - x.exp)
             ay == IF y.exp >= e THEN ShiftLeft(Mant(y), y.exp - e)
                                 ELSE ShiftRight(Mant(y), e - y.exp)
             lost == \/ x.exp < e /\ AnyBelow(Mant(x), e - x.exp)
                     \/ y.exp < e /\ AnyBelow(Mant(y), e - y.exp)
         IN  RoundPack(FALSE, BAdd(ax, ay), e, lost)

\* x * y
FMul(x, y) ==
    LET neg == x.neg # y.neg
    IN  IF x.cls = "nan" \/ y.cls = "nan" THEN FNaN
        ELSE IF x.cls = "inf" \/ y.cls = "inf"
        THEN IF IsZero(x) \/ IsZero(y) THEN FNaN ELSE FInf(neg)
        ELSE RoundPack(neg, BMul(Mant(x), Mant(y)), x.exp + y.exp, FALSE)

\* x / n for a finite x >= 0 and an int n > 0; n = 0 is ZeroDivisionError,
\* which the caller raises
FDivInt(x, n) ==
    IF x.cls # "num" THEN x
    ELSE LET k == Len(NatToBits(n)) + 3
         IN  RoundPack(x.neg, BQuot(ShiftLeft(Mant(x), k), n), x.exp - k,
                       BRem(ShiftLeft(Mant(x), k), n) # 0)

\* the float a decimal literal n/d denotes (n >= 0, d a power of ten)
Dec(n, d) == FDivInt(FromInt(n), d)

FNeg(x) == [x EXCEPT !.neg = ~x.neg]

\* Python's None where a float is expected
PyNone == [cls |-> "none", neg |-> FALSE, exp |-> 0, hi |-> 0, lo |-> 0]

(***************************************************************************)
(* The reference table (ase.data): symbol -> atomic number -> covalent     *)
(* radius.  The model carries the rows of three elements; every other      *)
(* symbol, "Unobtanium" among them, has no row.  Radii are the table's     *)
(* decimal literals, in hundredths of an Angstrom.                         *)
(***************************************************************************)
atomic_numbers == ("H" :> 1) @@ ("C" :> 6) @@ ("Fe" :> 26)

covalent_radii == (1 :> 31) @@ (6 :> 76) @@ (26 :> 132)

\* the literals of covalent_radii have two decimals
RadiusScale == 100

\* covalent_radii as the float64 array it is
RadiusTable == [z \in DOMAIN covalent_radii |-> Dec(covalent_radii[z], RadiusScale)]

\* covalent_radii[z]
CovalentRadius(z) == RadiusTable[z]

\* atomic_numbers.get(elem): found = FALSE stands for None
AtomicNumbersGet(elem) ==
    IF elem \in DOMAIN atomic_numbers
    THEN [found |-> TRUE, z |-> atomic_numbers[elem]]
    ELSE [found |-> FALSE, z |-> 0]

KnownSymbols == DOMAIN atomic_numbers
Symbols == KnownSymbols \cup {"Unobtanium"}

(***************************************************************************)
(* LJParams and the constants of generate_default_lj_params.               *)
(***************************************************************************)
LJFields == {"epsilon", "sigma", "cutoff"}

LJParams(epsilon_, sigma_, cutoff_) ==
    [epsilon |-> epsilon_, sigma |-> sigma_, cutoff |-> cutoff_]

NoLJParams == LJParams(PyNone, PyNone, PyNone)

\* epsilon: float = 1.0
DefaultEpsilon == Dec(10, 10)
\* cutoff_factor: float = 2.5
DefaultCutoffFactor == Dec(25, 10)

\* 2 ** (-1/6) = 0x1.c823e074ec129p-1 = 0.8908987181403393
TwoPowMinusSixth ==
    [cls |-> "num", neg |-> FALSE, exp |-> -53, hi |-> 59787200, lo |-> 122601769]

NoElementsMsg == "Cannot generate LJ params: No elements provided."
UnknownElementMsg == "Unknown element symbol: "

(***************************************************************************)
(* State.                                                                  *)
(*   pc            "idle" before a call, "gen_loop" in the generator's     *)
(*                 loop, "fd_return" before from_dict's return, "done"     *)
(*   call          the entry point called and its arguments                *)
(*   elements, epsilon, cutoff_factor, radii, idx, r_avg                   *)
(*                 the generator's parameters and locals (idx: the loop's  *)
(*                 position in elements)                                   *)
(*   caller        who called the generator: "caller" or "from_dict"       *)
(*   fd_elements, lj_params   from_dict's locals elements and lj_params    *)
(*   invoked       whether the call has entered the generator             *)
(*   outcome       what the call returned or raised                        *)
(*   prev          an earlier call of the generator and what it returned,  *)
(*                 and whether another call was made in between            *)
(***************************************************************************)
VARIABLES pc, call, elements, epsilon, cutoff_factor, radii, idx, r_avg,
          caller, fd_elements, lj_params, invoked, outcome, prev

vars == <<pc, call, elements, epsilon, cutoff_factor, radii, idx, r_avg,
          caller, fd_elements, lj_params, invoked, outcome, prev>>

(***************************************************************************)
(* The steps of generate_default_lj_params.                                *)
(***************************************************************************)
\* EmptyCheck without the check
NoEmptyCheck(els) == FALSE

\* "if not elements" (line 26)
EmptyCheck(els) == Len(els) = 0

\* InitRadii as a list that outlives the call
StaleRadii == radii

\* "radii = []" (line 29)
InitRadii == <<>>

\* LoopStep skipping a symbol without a row
LoopStepSkip(rs, elem) ==
    LET z == AtomicNumbersGet(elem)
    IN  IF z.found
        THEN [raise |-> FALSE, radii |-> Append(rs, CovalentRadius(z.z))]
        ELSE [raise |-> FALSE, radii |-> rs]

\* one pass of the loop body (lines 33-36): raise on a symbol without a row,
\* else append its radius
LoopStep(rs, elem) ==
    LET z == AtomicNumbersGet(elem)
    IN  IF z.found
        THEN [raise |-> FALSE, radii |-> Append(rs, CovalentRadius(z.z))]
        ELSE [raise |-> TRUE, radii |-> rs]

\* sum(radii): from the int 0, left to right
RECURSIVE SumFrom(_, _)
SumFrom(acc, rs) == IF rs = <<>> THEN acc ELSE SumFrom(FAdd(acc, Head(rs)), Tail(rs))

Sum(rs) == SumFrom(FromInt(0), rs)

\* Mean over the distinct radii
MeanUnique(rs) ==
    LET first == {i \in 1..Len(rs) : \A j \in 1..(i - 1) : rs[j] # rs[i]}
        uniq  == SelectSeq([i \in 1..Len(rs) |-> [i |-> i, r |-> rs[i]]],
                           LAMBDA e : e.i \in first)
    IN  FDivInt(Sum([i \in 1..Len(uniq) |-> uniq[i].r]), Len(uniq))


\* "r_avg = sum(radii) / len(radii)" (line 38), len(radii) > 0
Mean(rs) == FDivInt(Sum(rs), Len(rs))

\* SigmaOf without the factor 2 ** (-1/6)
SigmaUnscaled(r) == FMul(FromInt(2), r)

\* "sigma = (2 * r_avg) * (2 ** (-1/6))" (line 50)
SigmaOf(r) == FMul(FMul(FromInt(2), r), TwoPowMinusSixth)

\* CutoffOf with the default factor whatever the argument
CutoffDefault(sigma_, factor) == FMul(sigma_, DefaultCutoffFactor)

\* "cutoff = sigma * cutoff_factor" (line 52)
CutoffOf(sigma_, factor) == FMul(sigma_, factor)

(***************************************************************************)
(* The steps of Config.from_dict.                                          *)
(***************************************************************************)
\* config_dict.get("elements", [])
GetElements(raw) == IF raw.has_elements THEN raw.elements ELSE <<>>

\* Truthy that also wants elements
TruthyWithElements(raw) ==
    raw.has_lj /\ DOMAIN raw.lj # {} /\ raw.has_elements /\ raw.elements # <<>>

\* "if lj_params_data" (lines 69-70): config_dict.get("lj_params") is None
\* when the key is absent, and an empty mapping is falsy too
Truthy(raw) == raw.has_lj /\ DOMAIN raw.lj # {}

\* LJParamsInit with a default for every field: 0.0, or None
LJParamsInitFilled(kw, dflt) ==
    IF DOMAIN kw \ LJFields # {}
    THEN [ok |-> FALSE, msg |-> "got an unexpected keyword argument", value |-> NoLJParams]
    ELSE [ok |-> TRUE, msg |-> "",
          value |-> [f \in LJFields |-> IF f \in DOMAIN kw THEN kw[f] ELSE dflt]]

LJParamsInitZero(kw) == LJParamsInitFilled(kw, FZero(FALSE))

LJParamsInitNone(kw) == LJParamsInitFilled(kw, PyNone)

\* LJParams(**lj_params_data) (line 71): the dataclass __init__ takes exactly
\* the keywords epsilon, sigma and cutoff, and stores them as given
LJParamsInit(kw) ==
    IF DOMAIN kw \ LJFields # {}
    THEN [ok |-> FALSE, msg |-> "got an unexpected keyword argument", value |-> NoLJParams]
    ELSE IF LJFields \ DOMAIN kw # {}
    THEN [ok |-> FALSE, msg |-> "missing required positional arguments", value |-> NoLJParams]
    ELSE [ok |-> TRUE, msg |-> "", value |-> LJParams(kw["epsilon"], kw["sigma"], kw["cutoff"])]

(***************************************************************************)
(* The inputs of the model.                                                *)
(***************************************************************************)
SeqsUpTo(S, n) == UNION {[1..k -> S] : k \in 0..n}

ElementLists == SeqsUpTo(Symbols, MaxLen)

\* keys a supplied lj_params mapping may carry
LJKeys == LJFields \cup {"extra"}

\* the values a supplied mapping gives its keys: the explicit parameters of
\* the tests, and a mapping with non-finite values
SuppliedValues ==
    { ("epsilon" :> Dec(5, 10)) @@ ("sigma" :> Dec(20, 10)) @@ ("cutoff" :> Dec(50, 10))
        @@ ("extra" :> Dec(10, 10)),
      ("epsilon" :> FInf(FALSE)) @@ ("sigma" :> Dec(20, 10)) @@ ("cutoff" :> FNaN)
        @@ ("extra" :> Dec(10, 10)) }

Restrict(f, K) == [k \in K |-> f[k]]

LJMappings == {Restrict(v, K) : v \in SuppliedValues, K \in SUBSET LJKeys}

EmptyMapping == Restrict(PyNone, {})

\* the mappings Config.from_dict is given
RawInputs ==
    {[has_elements |-> he, elements |-> els, has_lj |-> hl, lj |-> lj] :
        he \in BOOLEAN, els \in ElementLists, hl \in BOOLEAN, lj \in LJMappings}

WellFormedRaw(raw) ==
    /\ ~raw.has_elements => raw.elements = <<>>
    /\ ~raw.has_lj => raw.lj = EmptyMapping

Epsilons == {DefaultEpsilon, Dec(5, 10)}

CutoffFactors ==
    {DefaultCutoffFactor, Dec(11, 10), FNeg(DefaultCutoffFactor), FZero(FALSE),
     FInf(FALSE), FNaN}

\* the inputs of the runs that make several calls
PairSymbols == {"H", "C"}
PairLists == SeqsUpTo(PairSymbols, MaxLen)
PairFactors == {DefaultCutoffFactor, Dec(11, 10)}
PairRawInputs ==
    {[has_elements |-> TRUE, elements |-> els, has_lj |-> FALSE, lj |-> EmptyMapping] :
        els \in PairLists}

NoRaw == [has_elements |-> FALSE, elements |-> <<>>, has_lj |-> FALSE, lj |-> EmptyMapping]

NoCall ==
    [fn |-> "none", raw |-> NoRaw, elements |-> <<>>,
     epsilon |-> PyNone, cutoff_factor |-> PyNone]

NoOutcome ==
    [kind |-> "none", exc |-> "", msg |-> "", arg |-> "",
     type |-> "", elements |-> <<>>, lj_params |-> NoLJParams]

Raise(exc, msg, arg) ==
    [kind |-> "raise", exc |-> exc, msg |-> msg, arg |-> arg,
     type |-> "", elements |-> <<>>, lj_params |-> NoLJParams]

Return(type, els, lj) ==
    [kind |-> "return", exc |-> "", msg |-> "", arg |-> "",
     type |-> type, elements |-> els, lj_params |-> lj]

NoPrev ==
    [set |-> FALSE, elements |-> <<>>, epsilon |-> PyNone, cutoff_factor |-> PyNone,
     value |-> NoLJParams, between |-> FALSE]

\* prev when a call begins: between records that a call other than a repeat
\* of the remembered one has been made since
CallBegins(fn, els, eps, cf) ==
    prev' = IF /\ prev.set
               /\ ~(/\ fn = "generate_default_lj_params"
                    /\ els = prev.elements
                    /\ eps = prev.epsilon
                    /\ cf = prev.cutoff_factor)
            THEN [prev EXCEPT !.between = TRUE]
            ELSE prev

Init ==
    /\ pc = "idle"
    /\ call = NoCall
    /\ elements = <<>>
    /\ epsilon = PyNone
    /\ cutoff_factor = PyNone
    /\ radii = <<>>
    /\ idx = 0
    /\ r_avg = PyNone
    /\ caller = "caller"
    /\ fd_elements = <<>>
    /\ lj_params = NoLJParams
    /\ invoked = FALSE
    /\ outcome = NoOutcome
    /\ prev = NoPrev

\* Entry of generate_default_lj_params(els, eps, cf), called by `by`
\* (lines 14-29): the emptiness check, then the empty radii list.
EnterGenerator(by, els, eps, cf) ==
    /\ invoked' = TRUE
    /\ caller' = by
    /\ elements' = els
    /\ epsilon' = eps
    /\ cutoff_factor' = cf
    /\ idx' = 1
    /\ r_avg' = PyNone
    /\ IF EmptyCheck(els)
       THEN /\ outcome' = Raise("ValueError", NoElementsMsg, "")
            /\ pc' = "done"
            /\ radii' = <<>>
       ELSE /\ outcome' = NoOutcome
            /\ pc' = "gen_loop"
            /\ radii' = InitRadii

\* a caller calls generate_default_lj_params(els, eps, cf)
Generate(els, eps, cf) ==
    /\ call' = [fn |-> "generate_default_lj_params", raw |-> NoRaw, elements |-> els,
                epsilon |-> eps, cutoff_factor |-> cf]
    /\ fd_elements' = <<>>
    /\ lj_params' = NoLJParams
    /\ EnterGenerator("caller", els, eps, cf)
    /\ CallBegins("generate_default_lj_params", els, eps, cf)

\* the loop body on elements[idx], a symbol of the table (lines 30-36)
GenLoopAppend ==
    /\ pc = "gen_loop"
    /\ idx <= Len(elements)
    /\ LET st == LoopStep(radii, elements[idx])
       IN  /\ ~st.raise
           /\ radii' = st.radii
    /\ idx' = idx + 1
    /\ UNCHANGED <<pc, call, elements, epsilon, cutoff_factor, r_avg, caller,
                   fd_elements, lj_params, invoked, outcome, prev>>

\* the loop body on a symbol without a row: ValueError (lines 34-35), which
\* from_dict does not catch
GenLoopUnknown ==
    /\ pc = "gen_loop"
    /\ idx <= Len(elements)
    /\ LoopStep(radii, elements[idx]).raise
    /\ outcome' = Raise("ValueError", UnknownElementMsg, elements[idx])
    /\ pc' = "done"
    /\ UNCHANGED <<call, elements, epsilon, cutoff_factor, radii, idx, r_avg, caller,
                   fd_elements, lj_params, invoked, prev>>

\* after the loop (lines 38-54): r_avg, sigma, cutoff and the LJParams
\* returned, to the caller or into from_dict's lj_params (line 84)
GenReturn ==
    /\ pc = "gen_loop"
    /\ idx > Len(elements)
    /\ IF Len(radii) = 0
       THEN /\ outcome' = Raise("ZeroDivisionError", "division by zero", "")
            /\ pc' = "done"
            /\ UNCHANGED <<r_avg, lj_params>>
       ELSE LET r  == Mean(radii)
                sg == SigmaOf(r)
                v  == LJParams(epsilon, sg, CutoffOf(sg, cutoff_factor))
            IN  /\ r_avg' = r
                /\ IF caller = "from_dict"
                   THEN /\ lj_params' = v
                        /\ pc' = "fd_return"
                        /\ UNCHANGED outcome
                   ELSE /\ outcome' = Return("LJParams", <<>>, v)
                        /\ pc' = "done"
                        /\ UNCHANGED lj_params
    /\ UNCHANGED <<call, elements, epsilon, cutoff_factor, radii, idx, caller,
                   fd_elements, invoked, prev>>

\* the generator's frame while from_dict has not called it
NoGeneratorFrame ==
    /\ elements' = <<>>
    /\ epsilon' = PyNone
    /\ cutoff_factor' = PyNone
    /\ radii' = <<>>
    /\ idx' = 0
    /\ r_avg' = PyNone
    /\ caller' = "caller"
    /\ invoked' = FALSE

\* Config.from_dict(raw) with a truthy lj_params that LJParams accepts
\* (lines 67-71)
FromDictExplicit(raw) ==
    /\ Truthy(raw)
    /\ LJParamsInit(raw.lj).ok
    /\ call' = [NoCall EXCEPT !.fn = "from_dict", !.raw = raw]
    /\ fd_elements' = GetElements(raw)
    /\ lj_params' = LJParamsInit(raw.lj).value
    /\ pc' = "fd_return"
    /\ outcome' = NoOutcome
    /\ NoGeneratorFrame
    /\ CallBegins("from_dict", GetElements(raw), PyNone, PyNone)

\* Config.from_dict(raw) with a truthy lj_params that LJParams rejects:
\* the TypeError of the dataclass __init__ (line 71)
FromDictMalformed(raw) ==
    /\ Truthy(raw)
    /\ ~LJParamsInit(raw.lj).ok
    /\ call' = [NoCall EXCEPT !.fn = "from_dict", !.raw = raw]
    /\ fd_elements' = GetElements(raw)
    /\ lj_params' = NoLJParams
    /\ pc' = "done"
    /\ outcome' = Raise("TypeError", LJParamsInit(raw.lj).msg, "")
    /\ NoGeneratorFrame
    /\ CallBegins("from_dict", GetElements(raw), PyNone, PyNone)

\* Config.from_dict(raw) without a truthy lj_params: the generator is called
\* on the elements, with its default epsilon and cutoff_factor (lines 72-84)
FromDictGenerate(raw) ==
    /\ ~Truthy(raw)
    /\ call' = [NoCall EXCEPT !.fn = "from_dict", !.raw = raw]
    /\ fd_elements' = GetElements(raw)
    /\ lj_params' = NoLJParams
    /\ EnterGenerator("from_dict", GetElements(raw), DefaultEpsilon, DefaultCutoffFactor)
    /\ CallBegins("from_dict", GetElements(raw), PyNone, PyNone)

\* from_dict returns the Config (lines 86-91)
FromDictReturn ==
    /\ pc = "fd_return"
    /\ outcome' = Return("Config", fd_elements, lj_params)
    /\ pc' = "done"
    /\ UNCHANGED <<call, elements, epsilon, cutoff_factor, radii, idx, r_avg, caller,
                   fd_elements, lj_params, invoked, prev>>

(***************************************************************************)
(* Spec: one call, of either entry point, on any input of the model.       *)
(***************************************************************************)
CallGenerate ==
    /\ pc = "idle"
    /\ \E els \in ElementLists, eps \in Epsilons, cf \in CutoffFactors :
          Generate(els, eps, cf)

CallFromDictExplicit ==
    /\ pc = "idle"
    /\ \E raw \in RawInputs : WellFormedRaw(raw) /\ FromDictExplicit(raw)

CallFromDictMalformed ==
    /\ pc = "idle"
    /\ \E raw \in RawInputs : WellFormedRaw(raw) /\ FromDictMalformed(raw)

CallFromDictGenerate ==
    /\ pc = "idle"
    /\ \E raw \in RawInputs : WellFormedRaw(raw) /\ FromDictGenerate(raw)

Next ==
    \/ CallGenerate
    \/ CallFromDictExplicit
    \/ CallFromDictMalformed
    \/ CallFromDictGenerate
    \/ GenLoopAppend
    \/ GenLoopUnknown
    \/ GenReturn
    \/ FromDictReturn

Spec == Init /\ [][Next]_vars

(***************************************************************************)
(* SpecPair: calls one after the other, each starting when the one before  *)
(* has finished; a finished call of the generator may be remembered.       *)
(***************************************************************************)
PairCallGenerate ==
    /\ pc \in {"idle", "done"}
    /\ \E els \in PairLists, cf \in PairFactors : Generate(els, DefaultEpsilon, cf)

PairCallFromDictGenerate ==
    /\ pc \in {"idle", "done"}
    /\ \E raw \in PairRawInputs : FromDictGenerate(raw)

Remember ==
    /\ pc = "done"
    /\ call.fn = "generate_default_lj_params"
    /\ outcome.kind = "return"
    /\ prev' = [set |-> TRUE, elements |-> call.elements, epsilon |-> call.epsilon,
                cutoff_factor |-> call.cutoff_factor, value |-> outcome.lj_params,
                between |-> FALSE]
    /\ prev' # prev
    /\ UNCHANGED <<pc, call, elements, epsilon, cutoff_factor, radii, idx, r_avg,
                   caller, fd_elements, lj_params, invoked, outcome>>

NextPair ==
    \/ PairCallGenerate
    \/ PairCallFromDictGenerate
    \/ GenLoopAppend
    \/ GenReturn
    \/ FromDictReturn
    \/ Remember

SpecPair == Init /\ [][NextPair]_vars

(***************************************************************************)
(* Properties.  Two floats are "the same" when they are the same value bit *)
(* for bit (a NaN is the same as itself).                                  *)
(***************************************************************************)
Done == pc = "done"
FromDictCalled == call.fn = "from_dict"
GeneratorCalled == call.fn = "generate_default_lj_params"

\* the call gives no lj_params, or an empty one
NoExplicit == FromDictCalled /\ (~call.raw.has_lj \/ DOMAIN call.raw.lj = {})

\* the elements the call is given
InputElements ==
    IF FromDictCalled
    THEN (IF call.raw.has_elements THEN call.raw.elements ELSE <<>>)
    ELSE call.elements

\* the call takes the generating path
Generating == GeneratorCalled \/ NoExplicit

AllKnown(els) == \A i \in 1..Len(els) : els[i] \in {"H", "C", "Fe"}

\* radius(els[1]) + ... + radius(els[n]), added left to right
RECURSIVE RadiusSum(_, _)
RadiusSum(els, n) ==
    IF n = 1 THEN RadiusTable[atomic_numbers[els[1]]]
    ELSE FAdd(RadiusSum(els, n - 1), RadiusTable[atomic_numbers[els[n]]])

MeanRadius(els) == FDivInt(RadiusSum(els, Len(els)), Len(els))

ExpectedSigma(els) == FMul(FMul(FromInt(2), MeanRadius(els)), TwoPowMinusSixth)

\* C1: when lj_params is absent and elements is a non-empty list of known
\* symbols, from_dict returns a Config with these elements whose lj_params
\* has epsilon 1.0, sigma 2 * mean radius * 2^(-1/6) and cutoff 2.5 * sigma.
C1_GeneratedDefaults ==
    (/\ Done
     /\ FromDictCalled
     /\ ~call.raw.has_lj
     /\ call.raw.has_elements
     /\ call.raw.elements # <<>>
     /\ AllKnown(call.raw.elements))
    => /\ outcome.kind = "return"
       /\ outcome.type = "Config"
       /\ outcome.elements = call.raw.elements
       /\ outcome.lj_params.epsilon = Dec(10, 10)
       /\ outcome.lj_params.sigma = ExpectedSigma(call.raw.elements)
       /\ outcome.lj_params.cutoff = FMul(Dec(25, 10), outcome.lj_params.sigma)

\* scenario A: elements ["Fe", "C"], no lj_params, a Config returned
C1_Witness ==
    /\ Done
    /\ FromDictCalled
    /\ ~call.raw.has_lj
    /\ call.raw.elements = <<"Fe", "C">>
    /\ outcome.kind = "return"

\* the call supplies exactly epsilon, sigma and cutoff
ExplicitSupplied == FromDictCalled /\ call.raw.has_lj /\ DOMAIN call.raw.lj = LJFields

\* C2: when lj_params is supplied with its three fields, the Config returned
\* carries them verbatim whatever elements holds, the generator is not
\* invoked and nothing is raised.
C2_ExplicitVerbatim ==
    ExplicitSupplied
    => /\ ~invoked
       /\ outcome.kind # "raise"
       /\ Done => /\ outcome.kind = "return"
                  /\ outcome.type = "Config"
                  /\ outcome.lj_params.epsilon = call.raw.lj["epsilon"]
                  /\ outcome.lj_params.sigma = call.raw.lj["sigma"]
                  /\ outcome.lj_params.cutoff = call.raw.lj["cutoff"]

\* explicit parameters beside an unknown symbol, a Config returned
C2_Witness ==
    /\ Done
    /\ ExplicitSupplied
    /\ \E i \in 1..Len(call.raw.elements) : call.raw.elements[i] = "Unobtanium"
    /\ outcome.kind = "return"
    /\ outcome.lj_params.sigma = Dec(20, 10)

\* C3: with no elements and no explicit lj_params, from_dict raises the
\* ValueError "... No elements provided." and returns nothing; a direct call
\* of the generator with an empty list raises the very same error.
C3_EmptyElementSet ==
    (Done /\ Generating /\ InputElements = <<>>)
    => /\ outcome.kind = "raise"
       /\ outcome.exc = "ValueError"
       /\ outcome.msg = "Cannot generate LJ params: No elements provided."
       /\ outcome.arg = ""
       /\ outcome.type = ""

\* from_dict of the empty mapping has raised
C3_Witness ==
    /\ Done
    /\ FromDictCalled
    /\ ~call.raw.has_elements
    /\ ~call.raw.has_lj
    /\ outcome.kind = "raise"

UnknownAt(els) == {i \in 1..Len(els) : ~AllKnown(<<els[i]>>)}

\* C4: when parameters are generated and some symbol of elements, at any
\* position, has no row, the call raises the ValueError "Unknown element
\* symbol: " naming the first such symbol; neither an LJParams nor a Config
\* is returned.
C4_UnknownElement ==
    (Generating /\ UnknownAt(InputElements) # {})
    => /\ outcome.kind # "return"
       /\ pc # "fd_return"
       /\ lj_params = NoLJParams
       /\ Done => /\ outcome.kind = "raise"
                  /\ outcome.exc = "ValueError"
                  /\ outcome.msg = "Unknown element symbol: "
                  /\ \E i \in UnknownAt(InputElements) :
                        /\ \A j \in UnknownAt(InputElements) : i <= j
                        /\ outcome.arg = InputElements[i]

\* an unknown symbol between two known ones, the call has raised
C4_Witness ==
    /\ Done
    /\ FromDictCalled
    /\ ~call.raw.has_lj
    /\ call.raw.elements = <<"Fe", "Unobtanium", "C">>
    /\ outcome.kind = "raise"
    /\ outcome.arg = "Unobtanium"

\* the mapping given as lj_params lacks one of the three fields
MissingField == FromDictCalled /\ call.raw.has_lj /\ LJFields \ DOMAIN call.raw.lj # {}

\* C5 as stated: an lj_params mapping lacking any of the three fields, all
\* three included, makes from_dict raise the TypeError of LJParams.
C5_Original ==
    (Done /\ MissingField) => (outcome.kind = "raise" /\ outcome.exc = "TypeError")

\* C5, amended: a non-empty lj_params mapping lacking any of the three fields
\* makes from_dict raise the TypeError of LJParams, without the generator
\* being invoked and whatever elements holds; an empty mapping is taken as
\* absent, and the generator is invoked.
C5_Amended ==
    /\ (Done /\ MissingField /\ DOMAIN call.raw.lj # {})
       => /\ outcome.kind = "raise"
          /\ outcome.exc = "TypeError"
          /\ outcome.type = ""
          /\ ~invoked
    /\ (Done /\ MissingField /\ DOMAIN call.raw.lj = {})
       => /\ invoked
          /\ outcome.exc # "TypeError"

\* a mapping without cutoff, beside known elements: TypeError
C5_Witness ==
    /\ Done
    /\ FromDictCalled
    /\ call.raw.has_lj
    /\ DOMAIN call.raw.lj = {"epsilon", "sigma"}
    /\ call.raw.elements = <<"Fe", "C">>
    /\ outcome.kind = "raise"
    /\ outcome.exc = "TypeError"

ConfigReturned == Done /\ FromDictCalled /\ outcome.kind = "return"

IsFloat(x) == x.cls \in {"num", "inf", "nan"}

\* C6 as stated: the LJParams of every Config returned has three finite
\* fields.
C6_Original ==
    ConfigReturned => \A f \in LJFields : IsFinite(outcome.lj_params[f])

\* C6, amended: the LJParams of every Config returned has its three fields
\* present; they are finite when the generator synthesized them, and are
\* the supplied values, finite or not, when lj_params was explicit.
C6_Amended ==
    ConfigReturned
    => /\ DOMAIN outcome.lj_params = LJFields
       /\ \A f \in LJFields : IsFloat(outcome.lj_params[f])
       /\ invoked => \A f \in LJFields : IsFinite(outcome.lj_params[f])
       /\ ~invoked => \A f \in LJFields : outcome.lj_params[f] = call.raw.lj[f]

\* a Config returned with an infinite epsilon and a NaN cutoff
C6_Witness ==
    /\ ConfigReturned
    /\ outcome.lj_params.epsilon = FInf(FALSE)
    /\ outcome.lj_params.cutoff = FNaN
    /\ IsFinite(outcome.lj_params.sigma)

GeneratorReturned == Done /\ GeneratorCalled /\ outcome.kind = "return"

\* C8: the cutoff of the LJParams the generator returns is the float product
\* of the sigma of that result and the cutoff_factor of the call.
C8_CutoffExact ==
    GeneratorReturned
    => outcome.lj_params.cutoff = FMul(outcome.lj_params.sigma, call.cutoff_factor)

\* two symbols and the factor 1.1
C8_Witness ==
    /\ GeneratorReturned
    /\ call.elements = <<"Fe", "C">>
    /\ call.cutoff_factor = Dec(11, 10)
    /\ outcome.lj_params.cutoff # outcome.lj_params.sigma

\* C10: r_avg is the sum of the radii of all occurrences divided by the
\* length of the raw list: [A, A, B] gives (r(A) + r(A) + r(B)) / 3, which
\* for A # B is not the mean of [A, B], nor is sigma that of [A, B].
C10_DuplicatesCount ==
    (Done /\ Generating /\ outcome.kind = "return")
    => /\ Len(radii) = Len(InputElements)
       /\ r_avg = FDivInt(RadiusSum(InputElements, Len(InputElements)),
                          Len(InputElements))
       /\ \A a, b \in {"H", "C", "Fe"} :
             InputElements = <<a, a, b>>
             => r_avg = FDivInt(FAdd(FAdd(RadiusTable[atomic_numbers[a]],
                                          RadiusTable[atomic_numbers[a]]),
                                     RadiusTable[atomic_numbers[b]]), 3)
       /\ \A a, b \in {"H", "C", "Fe"} :
             (a # b /\ InputElements = <<a, a, b>>)
             => /\ r_avg # MeanRadius(<<a, b>>)
                /\ outcome.lj_params.sigma # ExpectedSigma(<<a, b>>)

\* [H, H, C]: the mean is not that of [H, C]
C10_Witness ==
    /\ GeneratorReturned
    /\ call.elements = <<"H", "H", "C">>
    /\ r_avg # MeanRadius(<<"H", "C">>)
    /\ outcome.lj_params.sigma # ExpectedSigma(<<"H", "C">>)

(***************************************************************************)
(* Properties of two calls of the generator (SpecPair): prev is the        *)
(* earlier one, the call that has just returned the later one.             *)
(***************************************************************************)
Count(els, sym) == Cardinality({i \in 1..Len(els) : els[i] = sym})

IsPermutation(a, b) ==
    /\ Len(a) = Len(b)
    /\ \A sym \in {"H", "C", "Fe"} : Count(a, sym) = Count(b, sym)

\* the later call has the epsilon and the cutoff_factor of the earlier one
SameOptions ==
    /\ prev.set
    /\ prev.epsilon = call.epsilon
    /\ prev.cutoff_factor = call.cutoff_factor

\* C7: two calls of the generator on permutations of one list, with the same
\* epsilon and cutoff_factor, return the same LJParams.  The left-to-right
\* float sum of line 38 breaks this from three symbols on: [C, H, H] after
\* [H, H, C] returns another sigma and cutoff.
C7_Original ==
    (GeneratorReturned /\ SameOptions /\ IsPermutation(prev.elements, call.elements))
    => outcome.lj_params = prev.value

\* C9: two calls of the generator with the same elements, epsilon and
\* cutoff_factor return the same LJParams, whatever calls came in between.
C9_Deterministic ==
    (GeneratorReturned /\ SameOptions /\ prev.elements = call.elements)
    => outcome.lj_params = prev.value

\* [H, H, C] again, a call of other elements having been made in between
C9_Witness ==
    /\ GeneratorReturned
    /\ SameOptions
    /\ prev.elements = <<"H", "H", "C">>
    /\ call.elements = prev.elements
    /\ prev.between
    /\ outcome.lj_params = prev.value

====
